---- MODULE Spec2Model ----
(***************************************************************************)
(* Model of the Small Spaces design server (src/server.js).                *)
(*                                                                         *)
(* The design store is the file metadata.json (an ordered list of design   *)
(* records) together with the directories designs/ (<id>.sav payloads) and *)
(* thumbnails/ (<id>.png).  Every request handler runs to completion in    *)
(* one turn of the event loop, because it only uses synchronous file       *)
(* calls; the one exception is the upload handler, which awaits the        *)
(* thumbnail compression between writing the payload and updating          *)
(* metadata.json, so other handlers can run in between.                    *)
(***************************************************************************)
EXTENDS Integers, Sequences, FiniteSets, TLC

(***************************************************************************)
(* Bounds of the model.                                                    *)
(***************************************************************************)
MaxClock == 1       \* readings the wall clock can take are 0..MaxClock
MaxCount == 2       \* download_count values explored are 0..MaxCount
MaxPending == 1     \* uploads that can be awaiting their thumbnail at once
MaxBatch == 2       \* counter requests dispatched together in SpecRace
MaxRecords == 3     \* designs in the store that SpecBrowse lists
MaxEvents == 3      \* events the log holds in SpecAnalytics
MaxSessions == 2    \* sessions started in SpecAnalytics

(***************************************************************************)
(* Values.                                                                 *)
(***************************************************************************)
null == "<null>"                    \* JavaScript null
undefined == "<undefined>"          \* JavaScript undefined (field not sent)

ClientIds == {"d1"}                 \* designId values chosen by clients
UuidPool == {"uuid-1"}              \* values uuidv4() can return
Ids == ClientIds \cup UuidPool

\* Request bodies of POST /api/designs, without the designId.
\* "" stands for a missing or empty (falsy) string field; christmasEvent is
\* "true" for the boolean true, "'true'" for the string, undefined if absent.
UploadBodies ==
    { [title |-> "Loft", authorName |-> "Ann", level |-> "Berlin",
       saveData |-> "sav1", thumbnail |-> "png1", christmasEvent |-> "true"],
      [title |-> "Attic", authorName |-> "", level |-> "",
       saveData |-> "sav1", thumbnail |-> "", christmasEvent |-> "'true'"],
      [title |-> "", authorName |-> "Ann", level |-> "Berlin",
       saveData |-> "sav2", thumbnail |-> "png1", christmasEvent |-> undefined],
      [title |-> "Loft", authorName |-> "Ann", level |-> "",
       saveData |-> "", thumbnail |-> "png1", christmasEvent |-> undefined] }


\* Values of `increment` sent to the like endpoint: the +1 / -1 of the
\* client, and a decrement larger than any stored count.
Increments == {1, 0 - 1, 0 - (MaxCount + 1)}

VARIABLES
    metadata,       \* contents of metadata.json: sequence of design records
    designFiles,    \* designs/: function from id to the stored payload
    thumbFiles,     \* thumbnails/: function from id to the stored image
    pending,        \* uploads suspended at `await compressAndSaveThumbnail`
    clock,          \* current reading of new Date()
    res,            \* the last response sent (NoResponse before the first)
    inflight,       \* SpecRace: counter requests dispatched, not yet handled
    served,         \* SpecRace: counter requests handled
    base,           \* SpecRace: download_count when the batch was dispatched
    events,         \* contents of analytics/events.json: sequence of events
    sessions,       \* contents of analytics/sessions.json: sequence of sessions
    boot            \* how far the process got, and which files exist

\* the process after a start that found or created its three files
Serving ==
    [phase |-> "serving",
     present |-> [metadata |-> TRUE, events |-> TRUE, sessions |-> TRUE]]

designVars == <<metadata, designFiles, thumbFiles, pending>>
raceVars == <<inflight, served, base>>
analyticsVars == <<events, sessions>>
restVars == <<raceVars, analyticsVars, boot>>   \* untouched by the design handlers
vars == <<metadata, designFiles, thumbFiles, pending, clock, res,
          inflight, served, base, events, sessions, boot>>

NoCount == 0 - 1
NoResponse == [op |-> "none", status |-> 0, id |-> undefined,
               updated |-> FALSE, download_count |-> NoCount]
Response(op, status, id, updated, count) ==
    [op |-> op, status |-> status, id |-> id,
     updated |-> updated, download_count |-> count]

(***************************************************************************)
(* Helpers.                                                                *)
(***************************************************************************)
\* Array.prototype.findIndex(d => d.id === id), 1-based; 0 stands for -1.
findIndex(meta, id) ==
    IF \E i \in 1..Len(meta) : meta[i].id = id
    THEN CHOOSE i \in 1..Len(meta) :
            /\ meta[i].id = id
            /\ \A j \in 1..(i - 1) : meta[j].id # id
    ELSE 0

\* a || b for strings, where "", null and undefined are falsy
OrElse(a, b) == IF a \in {"", null, undefined} THEN b ELSE a

\* fs.existsSync on designs/<id>.sav and thumbnails/<id>.png
designExists(id) == id \in DOMAIN designFiles
thumbnailExists(id) == id \in DOMAIN thumbFiles

\* a directory after writing file <id> with the given content
WriteFile(dir, id, content) ==
    [k \in (DOMAIN dir) \cup {id} |-> IF k = id THEN content ELSE dir[k]]
\* a directory after fs.removeSync of file <id>
RemoveFile(dir, id) == [k \in (DOMAIN dir) \ {id} |-> dir[k]]
EmptyDir == [k \in {} |-> ""]

thumbnailUrlOf(id) == "/api/thumbnails/" \o id \o ".png"

Init ==
    /\ metadata = <<>>
    /\ designFiles = EmptyDir
    /\ thumbFiles = EmptyDir
    /\ pending = {}
    /\ clock = 0
    /\ res = NoResponse
    /\ boot = Serving
    /\ inflight = {}
    /\ served = {}
    /\ base = 0
    /\ events = <<>>
    /\ sessions = <<>>

\* The wall clock advances between requests.
Tick ==
    /\ clock < MaxClock
    /\ clock' = clock + 1
    /\ UNCHANGED <<designVars, res>>

(***************************************************************************)
(* POST /api/designs : upload (create or update) a design.                 *)
(***************************************************************************)
createdDesignCounted(id, body, thumbnailUrl, now) ==
    [id |-> id,
     title |-> body.title,
     description |-> "",
     author_name |-> IF body.authorName = "" THEN "Anonymous"
                     ELSE body.authorName,
     level |-> body.level,
     download_count |-> 1,
     upload_date |-> now,
     thumbnail_url |-> thumbnailUrl,
     christmas_event |-> (body.christmasEvent = "true")]

\* The record written by the create branch.
createdDesign(id, body, thumbnailUrl, now) ==
    [id |-> id,
     title |-> OrElse(body.title, "Untitled Design"),
     description |-> "",
     author_name |-> OrElse(body.authorName, "Anonymous"),
     level |-> OrElse(body.level, ""),
     download_count |-> 0,
     upload_date |-> now,
     thumbnail_url |-> thumbnailUrl,
     christmas_event |-> (body.christmasEvent = "true")]

updatedDesignCountReset(existingDesign, id, body, thumbnailUrl, now) ==
    [createdDesign(id, body, thumbnailUrl, now) EXCEPT
        !.thumbnail_url = IF thumbnailUrl = null
                          THEN existingDesign.thumbnail_url ELSE thumbnailUrl]

updatedDesignThumbnailLost(existingDesign, id, body, thumbnailUrl, now) ==
    [createdDesign(id, body, thumbnailUrl, now) EXCEPT
        !.download_count = existingDesign.download_count]

\* The record written by the update branch over existingDesign.
updatedDesign(existingDesign, id, body, thumbnailUrl, now) ==
    [id |-> id,
     title |-> OrElse(body.title, "Untitled Design"),
     description |-> "",
     author_name |-> OrElse(body.authorName, "Anonymous"),
     level |-> OrElse(body.level, ""),
     download_count |-> existingDesign.download_count,
     upload_date |-> now,
     thumbnail_url |-> OrElse(thumbnailUrl, existingDesign.thumbnail_url),
     christmas_event |-> (body.christmasEvent = "true")]

storeDesignAlwaysPush(allMetadata, id, body, thumbnailUrl, now) ==
    Append(allMetadata, createdDesign(id, body, thumbnailUrl, now))

\* loadMetadata .. saveMetadata of the upload handler: the new contents of
\* metadata.json, computed from the contents read after the await.
storeDesign(allMetadata, id, body, thumbnailUrl, now) ==
    LET existingIndex == findIndex(allMetadata, id) IN
    IF existingIndex # 0
    THEN [allMetadata EXCEPT ![existingIndex] =
              updatedDesign(allMetadata[existingIndex], id, body,
                            thumbnailUrl, now)]
    ELSE Append(allMetadata, createdDesign(id, body, thumbnailUrl, now))

\* designId values a client can send: none, or any id.
DesignIdInputs == {undefined} \cup Ids

\* Ids present anywhere in the server's state.
idsInUse ==
    {metadata[i].id : i \in 1..Len(metadata)} \cup DOMAIN designFiles
        \cup DOMAIN thumbFiles \cup {p.id : p \in pending}

\* designId || uuidv4(): uuidv4() returns an id the server has never seen,
\* which the model draws from the pool of ids that are not in use.
finalDesignIds(designId) ==
    IF designId = undefined THEN UuidPool \ idsInUse ELSE {designId}

missingTitleOnly(body) == body.title = ""

\* !title || !saveData
missingRequired(body) == body.title = "" \/ body.saveData = ""

\* The handler up to its response, or up to the await when a thumbnail was
\* sent.  blobOk is the result of saveBase64File for the payload.
UploadDesign(designId, body, blobOk) ==
    /\ UNCHANGED clock
    /\ IF missingRequired(body)
       THEN /\ res' = Response("upload", 400, undefined, FALSE, NoCount)
            /\ UNCHANGED designVars
       ELSE \E finalDesignId \in finalDesignIds(designId) :
         IF ~blobOk
         THEN /\ res' = Response("upload", 500, undefined, FALSE, NoCount)
              /\ UNCHANGED designVars
         ELSE
           /\ designFiles' = WriteFile(designFiles, finalDesignId,
                                       body.saveData)
           /\ IF body.thumbnail = ""
              THEN /\ metadata' = storeDesign(metadata, finalDesignId,
                                              body, null, clock)
                   /\ res' = Response("upload", 200, finalDesignId,
                                 findIndex(metadata, finalDesignId) # 0,
                                 NoCount)
                   /\ UNCHANGED <<thumbFiles, pending>>
              ELSE /\ Cardinality(pending) < MaxPending
                   /\ pending' = pending \cup
                                   {[id |-> finalDesignId, body |-> body]}
                   /\ UNCHANGED <<metadata, thumbFiles, res>>

\* The handler from the completion of compressAndSaveThumbnail on.  saved
\* tells whether it returned a path (the compressed image, or the original
\* when compression threw, was written) or null (nothing could be written).
UploadResume(p, saved) ==
    /\ p \in pending
    /\ pending' = pending \ {p}
    /\ thumbFiles' = IF saved
                     THEN WriteFile(thumbFiles, p.id, p.body.thumbnail)
                     ELSE thumbFiles
    /\ LET thumbnailUrl == IF saved THEN thumbnailUrlOf(p.id) ELSE null
       IN metadata' = storeDesign(metadata, p.id, p.body, thumbnailUrl, clock)
    /\ res' = Response("upload", 200, p.id, findIndex(metadata, p.id) # 0,
                       NoCount)
    /\ UNCHANGED <<designFiles, clock>>

(***************************************************************************)
(* POST /api/designs/:id/download and /download/binary.                    *)
(***************************************************************************)
incrementDownloadOnce(allMetadata, designIndex) ==
    [allMetadata EXCEPT ![designIndex].download_count =
        IF @ = 0 THEN 1 ELSE @]

\* allMetadata[designIndex].download_count += 1
incrementDownload(allMetadata, designIndex) ==
    [allMetadata EXCEPT ![designIndex].download_count = @ + 1]

\* Both download handlers change the store in the same way; they differ in
\* how the payload and the metadata are sent back.
downloadHandler(op, id) ==
    IF ~designExists(id)
    THEN /\ res' = Response(op, 404, undefined, FALSE, NoCount)
         /\ UNCHANGED <<designVars, clock>>
    ELSE LET designIndex == findIndex(metadata, id) IN
         IF designIndex # 0
         THEN /\ metadata[designIndex].download_count < MaxCount
              /\ metadata' = incrementDownload(metadata, designIndex)
              /\ res' = Response(op, 200, undefined, FALSE,
                                 metadata'[designIndex].download_count)
              /\ UNCHANGED <<designFiles, thumbFiles, pending, clock>>
         ELSE /\ res' = Response(op, 200, undefined, FALSE, NoCount)
              /\ UNCHANGED <<designVars, clock>>

DownloadDesign(id) == downloadHandler("download", id)
DownloadBinary(id) == downloadHandler("download", id)

(***************************************************************************)
(* POST /api/designs/:id/like.                                             *)
(***************************************************************************)
likedCountUnclamped(count, increment) == count + increment

\* download_count += increment, then the clamp at 0
likedCount(count, increment) ==
    IF count + increment < 0 THEN 0 ELSE count + increment

LikeDesign(id, increment) ==
    LET designIndex == findIndex(metadata, id) IN
    IF designIndex = 0
    THEN /\ res' = Response("like", 404, undefined, FALSE, NoCount)
         /\ UNCHANGED <<designVars, clock>>
    ELSE /\ metadata[designIndex].download_count + increment <= MaxCount
         /\ metadata' = [metadata EXCEPT ![designIndex].download_count =
                             likedCount(@, increment)]
         /\ res' = Response("like", 200, undefined, FALSE,
                            metadata'[designIndex].download_count)
         /\ UNCHANGED <<designFiles, thumbFiles, pending, clock>>

(***************************************************************************)
(* DELETE /api/designs/:id.                                                *)
(***************************************************************************)
\* allMetadata.filter(d => d.id !== designId)
filteredMetadata(allMetadata, designId) ==
    SelectSeq(allMetadata, LAMBDA d : d.id # designId)

DeleteDesign(id) ==
    IF ~designExists(id)
    THEN /\ res' = Response("delete", 404, undefined, FALSE, NoCount)
         /\ UNCHANGED <<designVars, clock>>
    ELSE /\ designFiles' = RemoveFile(designFiles, id)
         /\ thumbFiles' = IF thumbnailExists(id)
                          THEN RemoveFile(thumbFiles, id) ELSE thumbFiles
         /\ metadata' = filteredMetadata(metadata, id)
         /\ res' = Response("delete", 200, undefined, FALSE, NoCount)
         /\ UNCHANGED <<pending, clock>>

(***************************************************************************)
(* POST /api/admin/update-design-text.                                     *)
(***************************************************************************)
\* title / authorName values an administrator sends (undefined: not sent)
AdminTexts == {[title |-> undefined, authorName |-> undefined],
               [title |-> "Loft", authorName |-> "Ann"]}

\* The handler for a request that passes its early returns: the admin key
\* matches (else 403), designId is present (else 400) and a record with
\* that id is found (else 404).  The rejected requests change nothing.
UpdateDesignText(designId, text) ==
    LET designIndex == findIndex(metadata, designId) IN
    /\ designIndex # 0
    /\ metadata' =
          [metadata EXCEPT
              ![designIndex].title =
                  IF text.title # undefined THEN text.title ELSE @,
              ![designIndex].author_name =
                  IF text.authorName # undefined THEN text.authorName ELSE @]
    /\ res' = Response("update-design-text", 200, undefined, FALSE, NoCount)
    /\ UNCHANGED <<designFiles, thumbFiles, pending, clock>>

(***************************************************************************)
(* DELETE /api/admin/reset and DELETE /api/reset.                          *)
(***************************************************************************)
\* Both handlers, for a request that passes the early return (403): the
\* admin key matches (admin/reset), or the server runs in development mode
\* (reset).
resetHandler(op) ==
    /\ designFiles' = EmptyDir
    /\ thumbFiles' = EmptyDir
    /\ metadata' = <<>>
    /\ res' = Response(op, 200, undefined, FALSE, NoCount)
    /\ UNCHANGED <<pending, clock>>

AdminReset == resetHandler("reset")
DevReset == resetHandler("reset")

Next ==
    \/ Tick /\ UNCHANGED restVars
    \/ /\ \E designId \in DesignIdInputs, body \in UploadBodies,
            blobOk \in BOOLEAN : UploadDesign(designId, body, blobOk)
       /\ UNCHANGED restVars
    \/ /\ \E p \in pending, saved \in BOOLEAN : UploadResume(p, saved)
       /\ UNCHANGED restVars
    \/ (\E id \in Ids : DownloadDesign(id)) /\ UNCHANGED restVars
    \/ (\E id \in Ids : DownloadBinary(id)) /\ UNCHANGED restVars
    \/ /\ \E id \in Ids, increment \in Increments : LikeDesign(id, increment)
       /\ UNCHANGED restVars
    \/ (\E id \in Ids : DeleteDesign(id)) /\ UNCHANGED restVars
    \/ /\ \E designId \in Ids, text \in AdminTexts :
            UpdateDesignText(designId, text)
       /\ UNCHANGED restVars
    \/ AdminReset /\ UNCHANGED restVars
    \/ DevReset /\ UNCHANGED restVars

Spec == Init /\ [][Next]_vars

(***************************************************************************)
(* SpecRace: a batch of download and like requests for one design, all     *)
(* dispatched before the first of them is handled, and handled in any      *)
(* order while other requests work on the same metadata.json.              *)
(***************************************************************************)
Tracked == "d1"

\* a valid upload without thumbnail, which created the tracked design
trackedBody ==
    CHOOSE body \in UploadBodies :
        body.title # "" /\ body.saveData # "" /\ body.thumbnail = ""

InitRace ==
    /\ base \in 0..MaxCount
    /\ metadata = <<[createdDesign(Tracked, trackedBody, null, 0)
                        EXCEPT !.download_count = base]>>
    /\ designFiles = WriteFile(EmptyDir, Tracked, trackedBody.saveData)
    /\ thumbFiles = EmptyDir
    /\ pending = {}
    /\ clock = 0
    /\ res = NoResponse
    /\ boot = Serving
    /\ inflight = {}
    /\ served = {}
    /\ events = <<>>
    /\ sessions = <<>>

\* A client sends a counter request; n tells the requests of a batch apart.
Dispatch(kind, increment) ==
    /\ served = {}
    /\ Cardinality(inflight) < MaxBatch
    /\ inflight' = inflight \cup
          {[n |-> Cardinality(inflight) + 1, kind |-> kind,
            increment |-> IF kind = "like" THEN increment ELSE 1]}
    /\ UNCHANGED <<designVars, clock, res, served, base, analyticsVars, boot>>

\* The event loop runs the handler of one dispatched request.
Serve(r) ==
    /\ r \in inflight
    /\ CASE r.kind = "download" -> DownloadDesign(Tracked)
         [] r.kind = "download/binary" -> DownloadBinary(Tracked)
         [] r.kind = "like" -> LikeDesign(Tracked, r.increment)
    /\ inflight' = inflight \ {r}
    /\ served' = served \cup {r}
    /\ UNCHANGED <<base, analyticsVars, boot>>

RaceNext ==
    \/ \E kind \in {"download", "download/binary", "like"},
          increment \in Increments : Dispatch(kind, increment)
    \/ \E r \in inflight : Serve(r)
    \/ Tick /\ UNCHANGED restVars
    \/ /\ \E designId \in DesignIdInputs \ {Tracked}, body \in UploadBodies,
            blobOk \in BOOLEAN : UploadDesign(designId, body, blobOk)
       /\ UNCHANGED restVars
    \/ /\ \E p \in pending, saved \in BOOLEAN : UploadResume(p, saved)
       /\ UNCHANGED restVars
    \/ /\ \E id \in Ids \ {Tracked}, increment \in Increments :
            LikeDesign(id, increment)
       /\ UNCHANGED restVars
    \/ /\ \E text \in AdminTexts : UpdateDesignText(Tracked, text)
       /\ UNCHANGED restVars

SpecRace == InitRace /\ [][RaceNext]_vars

(***************************************************************************)
(* GET /api/designs (browse) and GET /api/designs/top.                     *)
(* Strings are TLA+ strings; the JavaScript string methods the handler     *)
(* uses are computed character by character.                               *)
(***************************************************************************)
NaN == 0 - 1                    \* Date.getTime() of an invalid date, parseInt
Digits == "0123456789"
UpperCase == "ABCDEFGHIJKLMNOPQRSTUVWXYZ"
LowerCase == "abcdefghijklmnopqrstuvwxyz"

charAt(s, i) == SubSeq(s, i, i)

\* String.prototype.includes
includes(s, t) ==
    \/ t = ""
    \/ \E i \in 1..(Len(s) - Len(t) + 1) : SubSeq(s, i, i + Len(t) - 1) = t

\* the lower-case letter of every upper-case letter
lowerOf ==
    [c \in {charAt(UpperCase, i) : i \in 1..Len(UpperCase)} |->
        charAt(LowerCase,
               CHOOSE i \in 1..Len(UpperCase) : charAt(UpperCase, i) = c)]

lowerChar(c) == IF c \in DOMAIN lowerOf THEN lowerOf[c] ELSE c

\* String.prototype.toLowerCase
RECURSIVE toLowerCase(_)
toLowerCase(s) ==
    IF s = "" THEN ""
    ELSE lowerChar(charAt(s, 1)) \o toLowerCase(SubSeq(s, 2, Len(s)))

\* String.prototype.trim
RECURSIVE trim(_)
trim(s) ==
    IF s = "" THEN ""
    ELSE IF charAt(s, 1) = " " THEN trim(SubSeq(s, 2, Len(s)))
    ELSE IF charAt(s, Len(s)) = " " THEN trim(SubSeq(s, 1, Len(s) - 1))
    ELSE s

\* the value of every digit character
digitOf ==
    [c \in {charAt(Digits, n + 1) : n \in 0..9} |->
        CHOOSE n \in 0..9 : charAt(Digits, n + 1) = c]

\* Date.prototype.toISOString of clock reading n: the timestamp string,
\* written as "T" and the two digits of the reading
toISOString(n) ==
    "T" \o charAt(Digits, (n \div 10) + 1) \o charAt(Digits, (n % 10) + 1)

\* new Date(string).getTime(): the clock reading, NaN when it is not a date
parseDate(s) ==
    IF /\ Len(s) = 3 /\ charAt(s, 1) = "T"
       /\ charAt(s, 2) \in DOMAIN digitOf /\ charAt(s, 3) \in DOMAIN digitOf
    THEN 10 * digitOf[charAt(s, 2)] + digitOf[charAt(s, 3)]
    ELSE NaN

\* parseInt of a one-character query value
parseInt(s) == IF s \in DOMAIN digitOf THEN digitOf[s] ELSE NaN

\* what is given, for a query parameter that is a string when present
given(x) == x # undefined /\ x # ""

\* req.query.levelFilters after JSON.parse: a list of strings, or null when
\* the parameter is absent, is not JSON or is not an array
parseLevelFilters(raw) == IF raw.kind = "array" THEN raw.items ELSE null

LevelFilterInputs ==
    {[kind |-> "absent"],
     [kind |-> "array", items |-> <<"Tokyo", "erl">>],
     [kind |-> "array", items |-> <<"">>]}

\* queries that sort and filter by search, date and flag; queries with the
\* level parameters; queries with blank or unusable values
BrowseQueries ==
    [sort : {undefined, "downloads", "title"},
     search : {undefined, " aNN"},
     level : {undefined},
     levelFilters : {[kind |-> "absent"]},
     fromDate : {undefined, toISOString(1)},
     christmasEvent : {undefined, "true"}]
    \cup
    [sort : {undefined},
     search : {undefined},
     level : {undefined, "Ber", "Tokyo"},
     levelFilters : LevelFilterInputs,
     fromDate : {undefined},
     christmasEvent : {undefined, "false"}]
    \cup
    [sort : {undefined},
     search : {undefined, " "},
     level : {undefined},
     levelFilters : {[kind |-> "absent"]},
     fromDate : {undefined, "soon"},
     christmasEvent : {undefined}]

searchMatchesTitleOnly(design, searchQuery) ==
    includes(toLowerCase(design.title), trim(toLowerCase(searchQuery)))

searchMatches(design, searchQuery) ==
    LET searchLower == trim(toLowerCase(searchQuery)) IN
    \/ includes(toLowerCase(design.title), searchLower)
    \/ includes(toLowerCase(design.author_name), searchLower)

levelFiltersMatch(design, levelFilters) ==
    /\ design.level # ""
    /\ \E i \in 1..Len(levelFilters) : includes(design.level, levelFilters[i])

levelMatches(design, levelFilter) ==
    design.level # "" /\ includes(design.level, levelFilter)

\* the flag filter if a record had to carry the flag it is asked for
christmasMatchesStored(design, christmasEventFilter) ==
    /\ "christmas_event" \in DOMAIN design
    /\ design.christmas_event = (christmasEventFilter = "true")

\* design.christmas_event === true is false for a record written before the
\* flag existed, which has no such field
christmasMatches(design, christmasEventFilter) ==
    LET wantChristmas == christmasEventFilter = "true"
        isChristmas == /\ "christmas_event" \in DOMAIN design
                       /\ design.christmas_event = TRUE
    IN  IF wantChristmas THEN isChristmas ELSE ~isChristmas

\* the four filters of the browse handler, applied in the handler's order
filterDesigns(allMetadata, query) ==
    LET levelFilters == parseLevelFilters(query.levelFilters)
        bySearch ==
            IF given(query.search) /\ trim(query.search) # ""
            THEN SelectSeq(allMetadata,
                           LAMBDA d : searchMatches(d, query.search))
            ELSE allMetadata
        byLevel ==
            IF levelFilters # null /\ Len(levelFilters) > 0
            THEN SelectSeq(bySearch,
                           LAMBDA d : levelFiltersMatch(d, levelFilters))
            ELSE IF given(query.level) /\ trim(query.level) # ""
            THEN SelectSeq(bySearch, LAMBDA d : levelMatches(d, query.level))
            ELSE bySearch
        byDate ==
            IF given(query.fromDate) /\ trim(query.fromDate) # ""
               /\ parseDate(query.fromDate) # NaN
            THEN SelectSeq(byLevel,
                     LAMBDA d : d.upload_date >= parseDate(query.fromDate))
            ELSE byLevel
    IN  IF given(query.christmasEvent)
        THEN SelectSeq(byDate,
                       LAMBDA d : christmasMatches(d, query.christmasEvent))
        ELSE byDate

compareDesignsByDate(sortMode, a, b) == b.upload_date - a.upload_date

\* the comparators handed to Array.prototype.sort: negative when a goes first
compareDesigns(sortMode, a, b) ==
    IF sortMode = "downloads" /\ b.download_count # a.download_count
    THEN b.download_count - a.download_count
    ELSE b.upload_date - a.upload_date

\* Array.prototype.sort (stable) with compareDesigns
RECURSIVE sortDesigns(_, _)
sortDesigns(sortMode, designs) ==
    IF designs = <<>> THEN <<>>
    ELSE LET n == Len(designs)
             sorted == sortDesigns(sortMode, SubSeq(designs, 1, n - 1))
             k == Cardinality({i \in 1..(n - 1) :
                     compareDesigns(sortMode, sorted[i], designs[n]) <= 0})
         IN  SubSeq(sorted, 1, k) \o <<designs[n]>>
                \o SubSeq(sorted, k + 1, n - 1)

BrowseDesigns(query) ==
    LET sortMode == OrElse(query.sort, "date")
        designs == sortDesigns(sortMode, filterDesigns(metadata, query))
    IN  /\ res' = [op |-> "browse", status |-> 200, query |-> query,
                   designs |-> designs, total |-> Len(designs)]
        /\ UNCHANGED <<designVars, clock, restVars>>

TopLimits == {undefined, "0", "2", "x"}

TopDesigns(rawLimit) ==
    LET limit == IF parseInt(rawLimit) \in {NaN, 0} THEN 3
                 ELSE parseInt(rawLimit)
        sorted == sortDesigns("downloads", metadata)
        topDesigns == SubSeq(sorted, 1,
                             IF limit < Len(sorted) THEN limit
                             ELSE Len(sorted))
    IN  /\ res' = [op |-> "top", status |-> 200, designs |-> topDesigns,
                   total |-> Len(metadata), limit |-> limit]
        /\ UNCHANGED <<designVars, clock, restVars>>

\* ids of the designs in the store that is browsed
storedId(i) == "d" \o charAt(Digits, i + 1)

\* the records an upload of id can have left in the store
storedDesigns(id) ==
    {[createdDesign(id, body, null, now) EXCEPT !.download_count = count] :
        body \in {b \in UploadBodies : ~missingRequired(b)},
        now \in 0..MaxClock, count \in {0, MaxCount}}

BrowseStores ==
    UNION {{store \in [1..n -> UNION {storedDesigns(storedId(i)) : i \in 1..n}] :
               \A i \in 1..n : store[i].id = storedId(i)} : n \in 0..MaxRecords}

InitBrowse ==
    /\ metadata \in BrowseStores
    /\ designFiles = [id \in {metadata[i].id : i \in 1..Len(metadata)}
                        |-> "sav1"]
    /\ thumbFiles = EmptyDir
    /\ pending = {}
    /\ clock = MaxClock
    /\ res = NoResponse
    /\ boot = Serving
    /\ inflight = {} /\ served = {} /\ base = 0
    /\ events = <<>> /\ sessions = <<>>

BrowseNext ==
    \/ \E query \in BrowseQueries : BrowseDesigns(query)
    \/ \E rawLimit \in TopLimits : TopDesigns(rawLimit)

SpecBrowse == InitBrowse /\ [][BrowseNext]_vars

(***************************************************************************)
(* Analytics: the event log (events.json) and the sessions (sessions.json).*)
(* Timestamps are stored as the strings toISOString writes.  Every handler *)
(* is synchronous.  A handler's file calls can fail: fs tells which.       *)
(***************************************************************************)
StorageOutcomes ==
    [eventsLoad : BOOLEAN, sessionsLoad : BOOLEAN, save : BOOLEAN]
NoFault == [eventsLoad |-> TRUE, sessionsLoad |-> TRUE, save |-> TRUE]

\* loadAnalyticsEvents: [] when the file cannot be read
loadAnalyticsEvents(fs) == IF fs.eventsLoad THEN events ELSE <<>>

\* loadAnalyticsSessions: [] when the file cannot be read
loadAnalyticsSessions(fs) == IF fs.sessionsLoad THEN sessions ELSE <<>>

\* saveAnalyticsEvents: the file keeps its contents when the write fails
savedEvents(fs, newEvents) == IF fs.save THEN newEvents ELSE events

\* saveAnalyticsSessions
savedSessions(fs, newSessions) == IF fs.save THEN newSessions ELSE sessions

EmptyProps == [k \in {} |-> ""]

\* the ids uuidv4() hands out for events and for sessions: the first ones
\* that no stored event or session carries
eventIdAt(i) ==
    IF i < 10 THEN "e" \o charAt(Digits, i + 1)
    ELSE "e" \o charAt(Digits, (i \div 10) + 1) \o charAt(Digits, (i % 10) + 1)
sessionIdAt(i) == "s" \o charAt(Digits, i + 1)
eventIdsStored == {events[i].id : i \in 1..Len(events)}
sessionIdsStored == {sessions[i].id : i \in 1..Len(sessions)}

RECURSIVE freshEventIds(_, _)
freshEventIds(k, taken) ==
    IF k = 0 THEN <<>>
    ELSE LET i == CHOOSE i \in 1..9 :
                     /\ eventIdAt(i) \notin taken
                     /\ \A j \in 1..(i - 1) : eventIdAt(j) \in taken
         IN  <<eventIdAt(i)>> \o freshEventIds(k - 1, taken \cup {eventIdAt(i)})

freshSessionId ==
    sessionIdAt(CHOOSE i \in 1..9 :
                   /\ sessionIdAt(i) \notin sessionIdsStored
                   /\ \A j \in 1..(i - 1) : sessionIdAt(j) \in sessionIdsStored)

SessionIdInputs == {undefined, sessionIdAt(1), sessionIdAt(2), "ghost"}
EventNames == {undefined, "LevelComplete"}

\* req.body of POST /api/analytics/event
EventBodies ==
    [session_id : {undefined, sessionIdAt(1), "ghost"},
     event_name : EventNames \cup {""},
     properties : {undefined}]

\* one entry of req.body.events of POST /api/analytics/batch
BatchEntries ==
    [session_id : {undefined, sessionIdAt(1)},
     event_name : EventNames,
     properties : {undefined},
     timestamp : {undefined}]
    \cup
    {[session_id |-> undefined, event_name |-> "Quit",
      properties |-> undefined, timestamp |-> "soon"]}

\* req.body of POST /api/analytics/batch; events is not an array when absent
BatchBodies ==
    [isArray : {FALSE}, events : {<<>>}, session_id : {undefined}]
    \cup
    [isArray : {TRUE},
     events : {<<>>} \cup {<<e>> : e \in BatchEntries}
              \cup {<<a, b>> : a \in BatchEntries,
                               b \in {e \in BatchEntries :
                                        e.session_id = sessionIdAt(1)}},
     session_id : {undefined, "ghost"}]

analyticsResponse(op, status) == [op |-> op, status |-> status]

\* the event object built by POST /api/analytics/event
trackedEvent(id, body, now) ==
    [id |-> id,
     session_id |-> OrElse(body.session_id, "anonymous"),
     event_name |-> body.event_name,
     properties |-> OrElse(body.properties, EmptyProps),
     timestamp |-> toISOString(now)]

AppendEventCounting(body, fs) ==
    /\ UNCHANGED <<designVars, clock, raceVars, boot>>
    /\ IF body.event_name \in {"", undefined}
       THEN /\ res' = analyticsResponse("event", 400)
            /\ UNCHANGED <<events, sessions>>
       ELSE LET loaded == loadAnalyticsEvents(fs)
                id == freshEventIds(1, eventIdsStored)[1]
                sid == OrElse(body.session_id, "anonymous")
            IN  /\ Len(loaded) < MaxEvents
                /\ events' = savedEvents(fs,
                                Append(loaded, trackedEvent(id, body, clock)))
                /\ sessions' = [i \in 1..Len(sessions) |->
                                  IF sessions[i].id = sid
                                  THEN [sessions[i] EXCEPT !.event_count = @ + 1]
                                  ELSE sessions[i]]
                /\ res' = analyticsResponse("event", 200)

AppendEvent(body, fs) ==
    /\ UNCHANGED <<designVars, clock, raceVars, boot, sessions>>
    /\ IF body.event_name \in {"", undefined}
       THEN /\ res' = analyticsResponse("event", 400)
            /\ UNCHANGED events
       ELSE LET loaded == loadAnalyticsEvents(fs)
                id == freshEventIds(1, eventIdsStored)[1]
            IN  /\ Len(loaded) < MaxEvents
                /\ events' = savedEvents(fs,
                                Append(loaded, trackedEvent(id, body, clock)))
                /\ res' = analyticsResponse("event", 200)

\* the event object built by POST /api/analytics/batch for one entry
batchEvent(id, eventData, body, now) ==
    [id |-> id,
     session_id |-> OrElse(eventData.session_id,
                           OrElse(body.session_id, "anonymous")),
     event_name |-> eventData.event_name,
     properties |-> OrElse(eventData.properties, EmptyProps),
     timestamp |-> OrElse(eventData.timestamp, toISOString(now))]

AppendBatch(body, fs) ==
    /\ UNCHANGED <<designVars, clock, raceVars, boot, sessions>>
    /\ IF ~body.isArray
       THEN /\ res' = analyticsResponse("batch", 400)
            /\ UNCHANGED events
       ELSE LET loaded == loadAnalyticsEvents(fs)
                n == Len(body.events)
                ids == freshEventIds(n, eventIdsStored)
                processed == [i \in 1..n |->
                                 batchEvent(ids[i], body.events[i], body,
                                            clock)]
            IN  /\ Len(loaded) + n <= MaxEvents
                /\ events' = savedEvents(fs, loaded \o processed)
                /\ res' = analyticsResponse("batch", 200)

\* the session object built by POST /api/analytics/session/start
startedSession(id, now) ==
    [id |-> id, start_time |-> toISOString(now), end_time |-> null,
     event_count |-> 0]

StartSession(fs) ==
    LET loaded == loadAnalyticsSessions(fs) IN
    /\ Len(loaded) < MaxSessions
    /\ freshSessionId \in {sessionIdAt(i) : i \in 1..MaxSessions}
    /\ sessions' = savedSessions(fs,
                      Append(loaded, startedSession(freshSessionId, clock)))
    /\ res' = analyticsResponse("session/start", 200)
    /\ UNCHANGED <<designVars, clock, raceVars, boot, events>>

sessionEventCountAll(loadedEvents, session_id) == Len(loadedEvents)

\* events.filter(e => e.session_id === session_id).length
sessionEventCount(loadedEvents, session_id) ==
    Cardinality({i \in 1..Len(loadedEvents) :
                    loadedEvents[i].session_id = session_id})

EndSession(session_id, fs) ==
    /\ UNCHANGED <<designVars, clock, raceVars, boot, events>>
    /\ IF session_id \in {"", undefined}
       THEN res' = analyticsResponse("session/end", 400) /\ UNCHANGED sessions
       ELSE LET loaded == loadAnalyticsSessions(fs)
                sessionIndex == findIndex(loaded, session_id)
            IN  IF sessionIndex = 0
                THEN /\ res' = analyticsResponse("session/end", 404)
                     /\ UNCHANGED sessions
                ELSE LET ended ==
                           [loaded EXCEPT
                              ![sessionIndex].end_time = toISOString(clock),
                              ![sessionIndex].event_count =
                                 sessionEventCount(loadAnalyticsEvents(fs),
                                                   session_id)]
                     IN  /\ sessions' = savedSessions(fs, ended)
                         /\ res' = [op |-> "session/end", status |-> 200,
                                    session |-> ended[sessionIndex]]

clearHandlerEventsOnly(op) ==
    /\ events' = <<>>
    /\ res' = analyticsResponse(op, 200)
    /\ UNCHANGED <<designVars, clock, raceVars, boot, sessions>>

\* DELETE /api/analytics/clear and DELETE /api/admin/reset-analytics with
\* the admin key: both files are rewritten as []
clearHandler(op) ==
    /\ events' = <<>>
    /\ sessions' = <<>>
    /\ res' = analyticsResponse(op, 200)
    /\ UNCHANGED <<designVars, clock, raceVars, boot>>

ClearAnalytics == clearHandler("clear")
ResetAnalytics == clearHandler("clear")

\* the store holds one design when the analytics requests arrive
InitAnalytics ==
    /\ metadata = <<createdDesign(Tracked, trackedBody, null, 0)>>
    /\ designFiles = WriteFile(EmptyDir, Tracked, trackedBody.saveData)
    /\ thumbFiles = EmptyDir
    /\ pending = {}
    /\ clock = 0
    /\ res = NoResponse
    /\ boot = Serving
    /\ inflight = {} /\ served = {} /\ base = 0
    /\ events = <<>> /\ sessions = <<>>

analyticsStep(fsSet) ==
    \/ Tick /\ UNCHANGED restVars
    \/ \E body \in EventBodies, fs \in fsSet : AppendEvent(body, fs)
    \/ \E body \in BatchBodies, fs \in fsSet : AppendBatch(body, fs)
    \/ \E fs \in fsSet : StartSession(fs)
    \/ \E session_id \in SessionIdInputs, fs \in fsSet :
          EndSession(session_id, fs)
    \/ ClearAnalytics
    \/ ResetAnalytics

AnalyticsNext == analyticsStep({NoFault})

\* the same requests when events.json can be unreadable for one request
EventLoadFaults == {NoFault, [NoFault EXCEPT !.eventsLoad = FALSE]}
AnalyticsFaultNext ==
    \/ \E body \in {b \in EventBodies : b.session_id # "ghost"},
          fs \in EventLoadFaults : AppendEvent(body, fs)
    \/ \E body \in {b \in BatchBodies : Len(b.events) < 2},
          fs \in EventLoadFaults : AppendBatch(body, fs)
    \/ \E fs \in EventLoadFaults : StartSession(fs)
    \/ \E session_id \in SessionIdInputs, fs \in EventLoadFaults :
          EndSession(session_id, fs)
    \/ ClearAnalytics
    \/ ResetAnalytics
SpecAnalyticsFault == InitAnalytics /\ [][AnalyticsFaultNext]_vars

\* the download handler when writeJsonSync throws inside saveMetadata: the
\* error is logged, metadata.json keeps its content and the answer is built
\* from the incremented object in memory
DownloadDesignUnsaved(id) ==
    /\ designExists(id)
    /\ findIndex(metadata, id) # 0
    /\ metadata[findIndex(metadata, id)].download_count < MaxCount
    /\ res' = Response("download", 200, undefined, FALSE,
                       incrementDownload(metadata, findIndex(metadata, id))
                          [findIndex(metadata, id)].download_count)
    /\ UNCHANGED <<designVars, clock, restVars>>

\* the mutating requests when a write of a collection file can fail
SaveFaults == {NoFault, [NoFault EXCEPT !.save = FALSE]}
SaveFaultNext ==
    \/ Tick /\ UNCHANGED restVars
    \/ \E id \in Ids : DownloadDesign(id) /\ UNCHANGED restVars
    \/ \E id \in Ids : DownloadDesignUnsaved(id)
    \/ \E body \in {b \in EventBodies : b.session_id # "ghost"},
          fs \in SaveFaults : AppendEvent(body, fs)
    \/ \E fs \in SaveFaults : StartSession(fs)
    \/ \E session_id \in SessionIdInputs, fs \in SaveFaults :
          EndSession(session_id, fs)
SpecSaveFault == InitAnalytics /\ [][SaveFaultNext]_vars

SpecAnalytics == InitAnalytics /\ [][AnalyticsNext]_vars

(***************************************************************************)
(* GET /api/analytics/summary.  The clock counts half days: DayLen         *)
(* readings make 24 hours.  The handler takes midnight in the zone the     *)
(* process runs in (new Date(y, m, d)) and prints dates in UTC             *)
(* (toISOString); tz is the offset of that zone from UTC, in readings.     *)
(***************************************************************************)
\* ---------------------------------------------------------------------
\* Frequency tables: counts kept in a plain object literal {}
\* ---------------------------------------------------------------------

\* keys every object literal inherits from Object.prototype: reading one
\* from {} yields a function, never undefined
InheritedKeys == {"constructor", "toString", "valueOf", "hasOwnProperty"}

\* the accessor key: assigning a number or a string to it stores nothing
ProtoKey == "__proto__"

\* (counts[key] || 0) + 1 where counts[key] is a number, or the text that a
\* function or an earlier text gives when 1 is added to it: no number (NaN)
plusOne(count) == IF count = NaN THEN NaN ELSE count + 1

\* for (const x of list) counts[key] = (counts[key] || 0) + 1, as the
\* entries of counts in the order their keys were created
RECURSIVE tallyUpTo(_, _)
tallyUpTo(keys, n) ==
    IF n = 0 THEN <<>>
    ELSE LET prev == tallyUpTo(keys, n - 1)
             key == keys[n]
             at == {i \in 1..Len(prev) : prev[i].key = key}
         IN  IF key = ProtoKey THEN prev
             ELSE IF at # {}
             THEN [prev EXCEPT ![CHOOSE i \in at : TRUE].count = plusOne(@)]
             ELSE Append(prev,
                         [key |-> key,
                          count |-> IF key \in InheritedKeys THEN NaN ELSE 1])

tally(keys) == tallyUpTo(keys, Len(keys))

\* .sort((a, b) => b[1] - a[1]) on numbers: stable, larger counts first
RECURSIVE sortByCount(_)
sortByCount(entries) ==
    IF Len(entries) <= 1 THEN entries
    ELSE LET front == sortByCount(SubSeq(entries, 1, Len(entries) - 1))
             last == entries[Len(entries)]
             k == Cardinality({i \in 1..Len(front) :
                                  front[i].count >= last.count})
         IN  SubSeq(front, 1, k) \o <<last>>
                \o SubSeq(front, k + 1, Len(front))

\* the orders .sort((a, b) => b[1] - a[1]) can leave the entries in: the
\* comparator answers NaN for a count that is no number, it is then no
\* consistent comparator and the order is the implementation's choice
sortOutcomes(entries) ==
    IF \E i \in 1..Len(entries) : entries[i].count = NaN
    THEN {[i \in 1..Len(entries) |-> entries[p[i]]] :
             p \in Permutations(1..Len(entries))}
    ELSE {sortByCount(entries)}

\* .slice(0, limit)
sliceTo(entries, limit) ==
    SubSeq(entries, 1, IF Len(entries) < limit THEN Len(entries) ELSE limit)

\* String(event.event_name) as a property key
nameKey(name) == IF name = undefined THEN "undefined" ELSE name

TopEventsLimit == 10

\* the values top_events of the summary can take
topEvents(loadedEvents) ==
    {[i \in 1..Len(cut) |-> [name |-> cut[i].key, count |-> cut[i].count]] :
        cut \in {sliceTo(sorted, TopEventsLimit) :
                    sorted \in sortOutcomes(
                       tally([i \in 1..Len(loadedEvents) |->
                                 nameKey(loadedEvents[i].event_name)]))}}

DayLen == 2                     \* 24 * 60 * 60 * 1000 ms, in clock readings
WeekDays == 7
MonthDays == 30
ChartDays == 7                  \* entries of events_per_day
TimeZones == {0, 1, 0 - 1}      \* UTC, UTC+12h, UTC-12h

\* new Date(now.getFullYear(), now.getMonth(), now.getDate()).getTime()
localMidnight(now, tz) == ((now + tz) \div DayLen) * DayLen - tz

\* date.toISOString().split('T')[0], as the number of the UTC day
utcDate(t) == t \div DayLen

\* how many of the timestamps are dates in [from, to)
countBetween(stamps, from, to) ==
    Cardinality({i \in 1..Len(stamps) :
                    /\ parseDate(stamps[i]) # NaN
                    /\ parseDate(stamps[i]) >= from
                    /\ parseDate(stamps[i]) < to})

\* how many of the timestamps are dates at or after from
countSince(stamps, from) ==
    Cardinality({i \in 1..Len(stamps) :
                    /\ parseDate(stamps[i]) # NaN
                    /\ parseDate(stamps[i]) >= from})

\* the summary if the week began with the first day of the chart
summaryOfSevenDays(loadedEvents, loadedSessions, now, tz) ==
    LET todayStart == localMidnight(now, tz)
        weekStart == todayStart - (WeekDays - 1) * DayLen
        monthStart == todayStart - MonthDays * DayLen
        stamps == [i \in 1..Len(loadedEvents) |-> loadedEvents[i].timestamp]
        starts == [i \in 1..Len(loadedSessions) |->
                      loadedSessions[i].start_time]
    IN  [events |-> [total |-> Len(loadedEvents),
                     today |-> countSince(stamps, todayStart),
                     this_week |-> countSince(stamps, weekStart),
                     this_month |-> countSince(stamps, monthStart)],
         sessions |-> [total |-> Len(loadedSessions),
                       today |-> countSince(starts, todayStart),
                       this_week |-> countSince(starts, weekStart),
                       active |-> Cardinality(
                           {i \in 1..Len(loadedSessions) :
                               loadedSessions[i].end_time = null})],
         events_per_day |->
            [j \in 1..ChartDays |->
                LET dayStart == todayStart - (ChartDays - j) * DayLen IN
                [date |-> utcDate(dayStart),
                 count |-> countBetween(stamps, dayStart, dayStart + DayLen)]]]

summaryOf(loadedEvents, loadedSessions, now, tz) ==
    LET todayStart == localMidnight(now, tz)
        weekStart == todayStart - WeekDays * DayLen
        monthStart == todayStart - MonthDays * DayLen
        stamps == [i \in 1..Len(loadedEvents) |-> loadedEvents[i].timestamp]
        starts == [i \in 1..Len(loadedSessions) |->
                      loadedSessions[i].start_time]
    IN  [events |-> [total |-> Len(loadedEvents),
                     today |-> countSince(stamps, todayStart),
                     this_week |-> countSince(stamps, weekStart),
                     this_month |-> countSince(stamps, monthStart)],
         sessions |-> [total |-> Len(loadedSessions),
                       today |-> countSince(starts, todayStart),
                       this_week |-> countSince(starts, weekStart),
                       active |-> Cardinality(
                           {i \in 1..Len(loadedSessions) :
                               loadedSessions[i].end_time = null})],
         events_per_day |->
            [j \in 1..ChartDays |->
                LET dayStart == todayStart - (ChartDays - j) * DayLen IN
                [date |-> utcDate(dayStart),
                 count |-> countBetween(stamps, dayStart, dayStart + DayLen)]]]

\* res.summary is the body without top_events, res.top_events that member
GetSummary(tz) ==
    /\ \E top \in topEvents(loadAnalyticsEvents(NoFault)) :
          res' = [op |-> "summary", status |-> 200,
                  summary |-> summaryOf(loadAnalyticsEvents(NoFault),
                                        loadAnalyticsSessions(NoFault),
                                        clock, tz),
                  top_events |-> top]
    /\ UNCHANGED <<designVars, clock, restVars>>

\* the instants around the day, week, chart and month boundaries of the
\* readings at which the summary is asked, and a timestamp that is no date
SummaryNows == {70, 71}
SummaryStamps ==
    {toISOString(t) : t \in {9, 10, 55, 56, 57, 58, 69, 70, 71, 72}}
       \cup {"soon"}

\* logs and session lists that the analytics requests can have written
SummaryLogs ==
    UNION {{[i \in 1..n |->
                [id |-> eventIdAt(i), session_id |-> "anonymous",
                 event_name |-> "LevelComplete",
                 properties |-> EmptyProps, timestamp |-> stamps[i]]] :
              stamps \in [1..n -> SummaryStamps]}
             : n \in 0..MaxEvents}

\* event names a client sends, and logs that differ in their names only
EventNamePool ==
    <<"LevelStart", "LevelComplete", "Quit", "DesignUploaded",
      "DesignDownloaded", "MenuOpened", "ItemPlaced", "ItemRemoved",
      "PhotoTaken", "SettingsChanged", "TutorialDone">>

namedEvent(i, name) ==
    [id |-> eventIdAt(i), session_id |-> "anonymous", event_name |-> name,
     properties |-> EmptyProps, timestamp |-> toISOString(70)]

NamedLogs ==
    {[i \in 1..n |-> namedEvent(i, EventNamePool[((i - 1) % m) + 1])] :
        n \in 0..(TopEventsLimit + 2), m \in {3, TopEventsLimit + 1}}
    \cup
    UNION {{[i \in 1..n |-> namedEvent(i, names[i])] :
              names \in [1..n -> {"LevelStart", "Quit", "constructor",
                                  ProtoKey, undefined}]}
             : n \in 0..MaxEvents}

SummarySessionLists ==
    {<<>>} \cup
    {<<startedSession(sessionIdAt(1), 55)>>,
     <<[startedSession(sessionIdAt(1), 69) EXCEPT
           !.end_time = toISOString(70)]>>}

InitSummary ==
    /\ clock \in SummaryNows
    /\ events \in {log \in SummaryLogs :
                      \A i \in 1..Len(log) : log[i].id = eventIdAt(i)}
                   \cup NamedLogs
    /\ sessions \in SummarySessionLists
    /\ metadata = <<>>
    /\ designFiles = EmptyDir
    /\ thumbFiles = EmptyDir
    /\ pending = {}
    /\ res = NoResponse
    /\ boot = Serving
    /\ inflight = {} /\ served = {} /\ base = 0

SummaryNext == \E tz \in TimeZones : GetSummary(tz)

SpecSummary == InitSummary /\ [][SummaryNext]_vars

\* ---------------------------------------------------------------------
\* The Christmas event flag: uploads that set it and the browse filter
\* ---------------------------------------------------------------------

\* a record of metadata.json written before christmas_event was introduced
legacyDesign(id) ==
    [id |-> id, title |-> "Cabin", description |-> "",
     author_name |-> "Anonymous", level |-> "Berlin", download_count |-> 0,
     upload_date |-> 0, thumbnail_url |-> null]

\* the record of id left by an upload of one of the valid bodies
flaggedDesigns(id) ==
    {createdDesign(id, body, null, 0) :
        body \in {b \in UploadBodies : ~missingRequired(b)}}

\* stores of at most two records: Tracked and an older design
FlagStores ==
    {<<>>}
    \cup {<<d>> : d \in flaggedDesigns(Tracked) \cup {legacyDesign(Tracked)}}
    \cup {<<old, d>> :
            old \in {legacyDesign("d0"),
                     createdDesign("d0", trackedBody, null, 0)},
            d \in flaggedDesigns(Tracked) \cup {legacyDesign(Tracked)}}

FlagQueries ==
    [sort : {undefined},
     search : {undefined},
     level : {undefined, "Ber"},
     levelFilters : {[kind |-> "absent"]},
     fromDate : {undefined},
     christmasEvent : {undefined, "", "true", "false"}]

InitFlag ==
    /\ metadata \in FlagStores
    /\ designFiles = [id \in {metadata[i].id : i \in 1..Len(metadata)}
                        |-> "sav1"]
    /\ thumbFiles = EmptyDir
    /\ pending = {}
    /\ clock = MaxClock
    /\ res = NoResponse
    /\ boot = Serving
    /\ inflight = {} /\ served = {} /\ base = 0
    /\ events = <<>> /\ sessions = <<>>

FlagNext ==
    \/ \E designId \in DesignIdInputs, body \in UploadBodies :
          UploadDesign(designId, body, TRUE) /\ UNCHANGED restVars
    \/ \E p \in pending, saved \in BOOLEAN :
          UploadResume(p, saved) /\ UNCHANGED restVars
    \/ \E query \in FlagQueries : BrowseDesigns(query)

SpecFlag == InitFlag /\ [][FlagNext]_vars

\* ---------------------------------------------------------------------
\* Startup: the statements the module runs before app.listen
\* ---------------------------------------------------------------------

\* what the file system answers during the start: whether ensureDirSync
\* and each writeJsonSync succeed
StartupOutcomes ==
    [dirs : BOOLEAN, metadataWrite : BOOLEAN,
     eventsWrite : BOOLEAN, sessionsWrite : BOOLEAN]

\* the start if every file were written without looking for it first
StartupAlwaysWriting(io) ==
    /\ boot.phase = "starting"
    /\ UNCHANGED <<designFiles, thumbFiles, pending, clock, res, raceVars>>
    /\ IF ~io.dirs \/ ~io.metadataWrite
       THEN /\ boot' = [boot EXCEPT !.phase = "exited"]
            /\ UNCHANGED <<metadata, events, sessions>>
       ELSE /\ metadata' = <<>>
            /\ events' = IF io.eventsWrite THEN <<>> ELSE events
            /\ sessions' = IF io.eventsWrite /\ io.sessionsWrite
                           THEN <<>> ELSE sessions
            /\ boot' = [phase |-> "serving",
                        present |->
                           [metadata |-> TRUE,
                            events |-> boot.present.events \/ io.eventsWrite,
                            sessions |-> boot.present.sessions
                               \/ (io.eventsWrite /\ io.sessionsWrite)]]

\* ensureDirSync of the three directories, then metadata.json, then the two
\* analytics files inside one try whose catch only logs
Startup(io) ==
    /\ boot.phase = "starting"
    /\ UNCHANGED <<designFiles, thumbFiles, pending, clock, res, raceVars>>
    /\ IF ~io.dirs \/ (~boot.present.metadata /\ ~io.metadataWrite)
       THEN \* process.exit(1)
            /\ boot' = [boot EXCEPT !.phase = "exited"]
            /\ UNCHANGED <<metadata, events, sessions>>
       ELSE LET eventsThrows == ~boot.present.events /\ ~io.eventsWrite
                eventsMade == ~boot.present.events /\ io.eventsWrite
                sessionsMade == /\ ~eventsThrows
                                /\ ~boot.present.sessions
                                /\ io.sessionsWrite
            IN  /\ metadata' = IF boot.present.metadata THEN metadata ELSE <<>>
                /\ events' = IF eventsMade THEN <<>> ELSE events
                /\ sessions' = IF sessionsMade THEN <<>> ELSE sessions
                /\ boot' = [phase |-> "serving",
                            present |->
                               [metadata |-> TRUE,
                                events |-> boot.present.events \/ eventsMade,
                                sessions |-> boot.present.sessions
                                                \/ sessionsMade]]

\* the files a start can find: each absent, empty or holding one entry
InitStartup ==
    /\ boot \in [phase : {"starting"},
                 present : [metadata : BOOLEAN, events : BOOLEAN,
                            sessions : BOOLEAN]]
    /\ metadata \in IF boot.present.metadata
                    THEN {<<>>, <<createdDesign(Tracked, trackedBody, null, 0)>>}
                    ELSE {<<>>}
    /\ designFiles = IF metadata = <<>> THEN EmptyDir
                     ELSE WriteFile(EmptyDir, Tracked, trackedBody.saveData)
    /\ events \in IF boot.present.events
                  THEN {<<>>, <<namedEvent(1, "LevelStart")>>}
                  ELSE {<<>>}
    /\ sessions \in IF boot.present.sessions
                    THEN {<<>>, <<startedSession(sessionIdAt(1), 69)>>}
                    ELSE {<<>>}
    /\ thumbFiles = EmptyDir
    /\ pending = {}
    /\ clock = 70
    /\ res = NoResponse
    /\ inflight = {} /\ served = {} /\ base = 0

\* after the start the process answers requests; the ones here only read
StartupNext ==
    \/ \E io \in StartupOutcomes : Startup(io)
    \/ boot.phase = "serving" /\ \E tz \in TimeZones : GetSummary(tz)
    \/ boot.phase = "serving" /\ \E rawLimit \in TopLimits : TopDesigns(rawLimit)

SpecStartup == InitStartup /\ [][StartupNext]_vars

\* ---------------------------------------------------------------------
\* GET /api/analytics/event-breakdown
\* ---------------------------------------------------------------------

\* JSON values of event properties: their type and String(value)
jsonString(text) == [type |-> "string", text |-> text]
jsonZero == [type |-> "number", text |-> "0"]
jsonSeven == [type |-> "number", text |-> "7"]
jsonFalse == [type |-> "boolean", text |-> "false"]
jsonTrue == [type |-> "boolean", text |-> "true"]
jsonUndefined == [type |-> "undefined", text |-> "undefined"]

\* the values that || replaces by its right operand
falsy(value) ==
    \/ value.type \in {"undefined", "null"}
    \/ value = jsonZero
    \/ value = jsonFalse
    \/ value = jsonString("")

EmptySentinel == "(empty)"

\* event.properties?.[propertyName]
propertyOf(event, propertyName) ==
    IF propertyName \in DOMAIN event.properties
    THEN event.properties[propertyName]
    ELSE jsonUndefined

\* event.properties?.[propertyName] || '(empty)', as the key of valueCounts
valueKey(event, propertyName) ==
    IF falsy(propertyOf(event, propertyName))
    THEN EmptySentinel
    ELSE propertyOf(event, propertyName).text

\* events.filter(e => e.event_name === eventName)
matching(loadedEvents, eventName) ==
    SelectSeq(loadedEvents, LAMBDA e : e.event_name = eventName)

\* Object.entries(valueCounts).sort(...).map(([value, count]) => ...): the
\* tables the sort can produce, before any cut
valueTables(matched, propertyName) ==
    {[i \in 1..Len(sorted) |-> [value |-> sorted[i].key,
                                count |-> sorted[i].count]] :
        sorted \in sortOutcomes(
                     tally([i \in 1..Len(matched) |->
                               valueKey(matched[i], propertyName)]))}

BreakdownLimit == 20

\* the keys of all properties objects of the matching events; the order in
\* which the Set received them is left out
propertyNamesOf(matched) ==
    UNION {DOMAIN matched[i].properties : i \in 1..Len(matched)}

\* allBreakdowns: assigning an array to the accessor key stores no entry
allBreakdownsOf(matched) ==
    LET props == propertyNamesOf(matched) \ {ProtoKey}
        tables == [prop \in props |->
                     {sliceTo(t, BreakdownLimit) :
                         t \in valueTables(matched, prop)}]
    IN  {f \in [props -> UNION {tables[prop] : prop \in props}] :
            \A prop \in props : f[prop] \in tables[prop]}

EventBreakdown(eventName, propertyName) ==
    /\ UNCHANGED <<designVars, clock, restVars>>
    /\ IF eventName \in {undefined, ""}
       THEN res' = analyticsResponse("event-breakdown", 400)
       ELSE LET matched == matching(loadAnalyticsEvents(NoFault), eventName)
            IN  IF Len(matched) = 0
                THEN res' = [op |-> "event-breakdown", status |-> 200,
                             event_name |-> eventName, total_count |-> 0,
                             properties |-> {}, breakdown |-> <<>>]
                ELSE IF propertyName \notin {undefined, ""}
                THEN \E table \in valueTables(matched, propertyName) :
                        res' = [op |-> "event-breakdown", status |-> 200,
                                event_name |-> eventName,
                                property |-> propertyName,
                                total_count |-> Len(matched),
                                breakdown |-> table]
                ELSE \E all \in allBreakdownsOf(matched) :
                        res' = [op |-> "event-breakdown", status |-> 200,
                                event_name |-> eventName,
                                total_count |-> Len(matched),
                                properties |-> propertyNamesOf(matched),
                                breakdowns |-> all]

\* properties objects a client sends with an event
levelAt(i) ==
    "L" \o charAt(Digits, (i \div 10) + 1) \o charAt(Digits, (i % 10) + 1)

PropsPool ==
    {EmptyProps,
     [k \in {"level"} |-> jsonString("Tokyo")],
     [k \in {"level"} |-> jsonString("Berlin")],
     [k \in {"level"} |-> jsonString("")],
     [k \in {"level"} |-> jsonString(EmptySentinel)],
     [k \in {"level"} |-> jsonString("constructor")],
     [k \in {"level"} |-> jsonString(ProtoKey)],
     [k \in {"score"} |-> jsonZero],
     [k \in {"score"} |-> jsonSeven],
     [k \in {"won"} |-> jsonFalse],
     [k \in {"level", "won"} |->
         IF k = "level" THEN jsonString("Tokyo") ELSE jsonTrue],
     [k \in {ProtoKey} |-> jsonString("Tokyo")]}

\* the i-th level played when m levels exist: each once, then back down
levelIndex(i, m) == IF i <= m THEN i ELSE m - (i - m - 1)

propsEvent(i, name, props) ==
    [id |-> eventIdAt(i), session_id |-> "anonymous", event_name |-> name,
     properties |-> props, timestamp |-> toISOString(70)]

\* short logs over the pool, and long logs of one event whose level takes
\* up to BreakdownLimit + 1 values
BreakdownLogs ==
    UNION {{[i \in 1..n |-> propsEvent(i, "LevelComplete", props[i])] :
              props \in [1..n -> PropsPool]} : n \in 0..MaxEvents}
    \cup
    {<<propsEvent(1, "Quit", EmptyProps),
       propsEvent(2, "LevelComplete", props)>> : props \in PropsPool}
    \cup
    {[i \in 1..n |->
         propsEvent(i, "LevelComplete",
                    [k \in {"level"} |->
                        jsonString(levelAt(levelIndex(i, m)))])] :
        n \in (BreakdownLimit - 1)..(BreakdownLimit + 3),
        m \in {BreakdownLimit + 1, BreakdownLimit + 3}}

BreakdownEventNames == {undefined, "LevelComplete", "Quit", "Crash"}
BreakdownProperties == {undefined, "level", "score", "won", "mode"}

InitBreakdown ==
    /\ clock = 70
    /\ events \in BreakdownLogs
    /\ sessions = <<>>
    /\ metadata = <<>>
    /\ designFiles = EmptyDir
    /\ thumbFiles = EmptyDir
    /\ pending = {}
    /\ res = NoResponse
    /\ boot = Serving
    /\ inflight = {} /\ served = {} /\ base = 0

BreakdownNext ==
    \E eventName \in BreakdownEventNames, propertyName \in BreakdownProperties :
       EventBreakdown(eventName, propertyName)

SpecBreakdown == InitBreakdown /\ [][BreakdownNext]_vars


(***************************************************************************)
(* Properties of the design store.                                         *)
(***************************************************************************)
recordsOf(meta, id) == {i \in 1..Len(meta) : meta[i].id = id}
hasRecord(meta, id) == recordsOf(meta, id) # {}
recordOf(meta, id) == meta[CHOOSE i \in recordsOf(meta, id) : TRUE]

\* A step in which an upload of `body` under the final id `id`, with its
\* title and payload present and the payload stored, reaches the metadata
\* update and responds.  thumbnailSaved: a thumbnail reference was produced.
uploadStores(id, body, thumbnailSaved) ==
    \/ /\ body.title # "" /\ body.saveData # ""
       /\ body.thumbnail = "" /\ ~thumbnailSaved
       /\ \E designId \in DesignIdInputs :
             /\ id \in finalDesignIds(designId)
             /\ UploadDesign(designId, body, TRUE)
    \/ /\ [id |-> id, body |-> body] \in pending
       /\ UploadResume([id |-> id, body |-> body], thumbnailSaved)

\* Every such step answers with the design_id it stored, so the properties
\* of uploads are stated over the steps that answer an upload with an id.
uploadAnswered == res'.op = "upload" /\ res'.id # undefined

\* C1: an upload that passes validation (title and payload present, payload
\* stored) under an id that has no record in the collection leaves the
\* collection with exactly one record of that id, whose download_count is 0.
C1_FreshUploadCreatesOneRecord ==
    [][uploadAnswered =>
         \A body \in UploadBodies, saved \in BOOLEAN :
          (~hasRecord(metadata, res'.id) /\ uploadStores(res'.id, body, saved))
          => /\ Cardinality(recordsOf(metadata', res'.id)) = 1
             /\ recordOf(metadata', res'.id).download_count = 0
             /\ res'.status = 200 /\ ~res'.updated]_vars

C1_Witness ==
    /\ res.op = "upload" /\ res.status = 200 /\ ~res.updated
    /\ hasRecord(metadata, res.id)
    /\ recordOf(metadata, res.id).download_count = 0

\* C2: an upload under an id that has a record keeps that record's
\* download_count, replaces title, author, level and flag by the values of
\* the request, sets upload_date to a time not before the previous one, and
\* keeps the number of records.
C2_ReuploadPreservesCount ==
    [][uploadAnswered =>
         \A body \in UploadBodies, saved \in BOOLEAN :
          (hasRecord(metadata, res'.id) /\ uploadStores(res'.id, body, saved))
          => /\ Len(metadata') = Len(metadata)
             /\ Cardinality(recordsOf(metadata', res'.id)) = 1
             /\ LET old == recordOf(metadata, res'.id)
                    new == recordOf(metadata', res'.id)
                IN /\ new.download_count = old.download_count
                   /\ new.upload_date >= old.upload_date
                   /\ new.title = body.title
                   /\ new.author_name = IF body.authorName = ""
                                        THEN "Anonymous" ELSE body.authorName
                   /\ new.level = body.level
                   /\ new.christmas_event = (body.christmasEvent = "true")
             /\ res'.status = 200 /\ res'.updated]_vars

C2_Witness ==
    /\ res.op = "upload" /\ res.status = 200 /\ res.updated
    /\ hasRecord(metadata, res.id)
    /\ recordOf(metadata, res.id).download_count > 0
    /\ recordOf(metadata, res.id).upload_date > 0

\* C3: an upload under an id that has a record overwrites thumbnail_url
\* only when this call produced a thumbnail reference; without a thumbnail,
\* or when saving it failed, the record keeps its previous thumbnail_url.
C3_ThumbnailOverwrittenOnlyWhenSupplied ==
    [][uploadAnswered =>
         \A body \in UploadBodies, saved \in BOOLEAN :
          (hasRecord(metadata, res'.id) /\ uploadStores(res'.id, body, saved))
          => recordOf(metadata', res'.id).thumbnail_url =
                IF saved THEN thumbnailUrlOf(res'.id)
                ELSE recordOf(metadata, res'.id).thumbnail_url]_vars

\* a record last uploaded without a thumbnail that still carries the
\* thumbnail reference of an earlier upload
C3_Witness ==
    /\ res.op = "upload" /\ res.status = 200 /\ res.updated
    /\ hasRecord(metadata, res.id)
    /\ recordOf(metadata, res.id).title = "Attic"
    /\ recordOf(metadata, res.id).thumbnail_url = thumbnailUrlOf(res.id)

\* C4: no two records of the collection have the same id, in every state
\* reachable by any interleaving of the handlers.
C4_IdsUnique ==
    \A i, j \in 1..Len(metadata) :
        i # j => metadata[i].id # metadata[j].id

\* two records, the second request for one of them answered while an
\* upload is waiting for its thumbnail
C4_Witness ==
    /\ Len(metadata) = 2
    /\ res.op = "upload" /\ res.updated
    /\ pending # {}

\* C5: download_count is never negative, a like stores
\* max(0, download_count + increment), and it returns the stored count.
C5_CountNeverNegative ==
    /\ [](\A i \in 1..Len(metadata) : metadata[i].download_count >= 0)
    /\ [][res'.op = "like" =>
            \A id \in Ids, increment \in Increments :
             (hasRecord(metadata, id) /\ LikeDesign(id, increment))
             => LET sum == recordOf(metadata, id).download_count + increment
                    new == recordOf(metadata', id).download_count
                IN /\ new = IF sum > 0 THEN sum ELSE 0
                   /\ res'.status = 200
                   /\ res'.download_count = new]_vars

C5_Witness ==
    /\ res.op = "like" /\ res.status = 200 /\ res.download_count = 0
    /\ \E i \in 1..Len(metadata) :
          metadata[i].download_count = 0 /\ metadata[i].upload_date < clock

\* a download step for design id (either endpoint)
downloads(id) == DownloadDesign(id) \/ DownloadBinary(id)

\* C6: a download of an id that has no record answers NotFound and leaves
\* the collection unchanged; a download of an id that has a record adds 1
\* to that record's download_count, leaves the other records unchanged and
\* returns the new count.
C6_DownloadNotFoundOrIncrement ==
    [][res'.op = "download" =>
         \A id \in Ids :
            downloads(id)
            => IF ~hasRecord(metadata, id)
               THEN res'.status = 404 /\ metadata' = metadata
               ELSE /\ res'.status = 200
                    /\ Len(metadata') = Len(metadata)
                    /\ \A i \in 1..Len(metadata) :
                          metadata'[i] =
                             IF metadata[i].id = id
                             THEN [metadata[i] EXCEPT !.download_count = @ + 1]
                             ELSE metadata[i]
                    /\ res'.download_count =
                          recordOf(metadata', id).download_count]_vars

\* C7: a delete of an id that has no record answers NotFound and leaves the
\* collection and the stored files unchanged.
C7_DeleteUnknownIsNotFound ==
    [][res'.op = "delete" =>
         \A id \in Ids :
            (~hasRecord(metadata, id) /\ DeleteDesign(id))
            => /\ res'.status = 404
               /\ UNCHANGED <<metadata, designFiles, thumbFiles>>]_vars

\* C8: a delete of an id that has a record succeeds and removes exactly the
\* records of that id, keeping the others as they were and in their order.
C8_DeleteRemovesRecord ==
    [][res'.op = "delete" =>
         \A id \in Ids :
            (hasRecord(metadata, id) /\ DeleteDesign(id))
            => /\ res'.status = 200
               /\ ~hasRecord(metadata', id)
               /\ metadata' = SelectSeq(metadata, LAMBDA d : d.id # id)]_vars

\* The count after one counter request, applied on its own to count c.
raceApply(c, r) ==
    IF r.kind = "like"
    THEN IF c + r.increment > 0 THEN c + r.increment ELSE 0
    ELSE c + 1

\* The counts the requests of set S can produce from c when they are
\* applied one after another, in any order.
RECURSIVE raceOutcomes(_, _)
raceOutcomes(c, S) ==
    IF S = {} THEN {c}
    ELSE UNION {raceOutcomes(raceApply(c, r), S \ {r}) : r \in S}

\* C9: the download_count of a design is the result of applying the
\* counter requests handled so far one after another in some order, so when
\* a batch dispatched together has completed no update is lost; downloads
\* alone raise the count by their number.
C9_NoLostUpdate ==
    /\ hasRecord(metadata, Tracked)
    /\ recordOf(metadata, Tracked).download_count
          \in raceOutcomes(base, served)
    /\ (\A r \in served : r.kind # "like")
          => recordOf(metadata, Tracked).download_count
                = base + Cardinality(served)

\* a batch of a download and a like has completed while an upload of
\* another design was waiting for its thumbnail
C9_Witness ==
    /\ inflight = {} /\ Cardinality(served) = MaxBatch
    /\ \E r \in served : r.kind = "like"
    /\ \E r \in served : r.kind # "like"
    /\ recordOf(metadata, Tracked).download_count = base + 2
    /\ pending # {}

\* C10: an upload without a title or without a payload is answered with the
\* validation error and changes neither the collection nor any stored file.
C10_InvalidUploadChangesNothing ==
    [][\A body \in UploadBodies :
          (body.title = "" \/ body.saveData = "")
          => \A designId \in DesignIdInputs, blobOk \in BOOLEAN :
                UploadDesign(designId, body, blobOk)
                => /\ res'.op = "upload" /\ res'.status = 400
                   /\ UNCHANGED <<metadata, designFiles, thumbFiles,
                                  pending>>]_vars

C10_Witness ==
    /\ res.op = "upload" /\ res.status = 400
    /\ Len(metadata) > 0

(***************************************************************************)
(* Properties of browsing.                                                 *)
(***************************************************************************)
\* a string parameter counts as supplied when it is present and not blank
supplied(x) == given(x) /\ trim(x) # ""

\* the records of the store, as a set
recordsIn(meta) == {meta[i] : i \in 1..Len(meta)}

searchHolds(d, q) ==
    supplied(q.search)
    => \/ includes(toLowerCase(d.title), toLowerCase(trim(q.search)))
       \/ includes(toLowerCase(d.author_name), toLowerCase(trim(q.search)))

fromDateHolds(d, q) ==
    (supplied(q.fromDate) /\ parseDate(q.fromDate) # NaN)
    => d.upload_date >= parseDate(q.fromDate)

eventFlagHolds(d, q) ==
    given(q.christmasEvent)
    => d.christmas_event = (q.christmasEvent = "true")

alternativesOf(q) ==
    IF q.levelFilters.kind = "array" THEN q.levelFilters.items ELSE <<>>

\* the level filter as stated: the single string and the list are both
\* filters, each satisfied by containment
levelHoldsAsStated(d, q) ==
    /\ supplied(q.level) => includes(d.level, q.level)
    /\ alternativesOf(q) # <<>>
         => \E i \in 1..Len(alternativesOf(q)) :
               includes(d.level, alternativesOf(q)[i])

\* the level filter as amended: a non-empty list replaces the single string,
\* and a record without a level satisfies no level filter
levelHoldsAmended(d, q) ==
    IF alternativesOf(q) # <<>>
    THEN /\ d.level # ""
         /\ \E i \in 1..Len(alternativesOf(q)) :
               includes(d.level, alternativesOf(q)[i])
    ELSE supplied(q.level) => (d.level # "" /\ includes(d.level, q.level))

\* the response lists exactly the records of S, each once, and counts them
listsExactly(S) ==
    /\ recordsIn(res.designs) = S
    /\ Len(res.designs) = Cardinality(S)
    /\ res.total = Len(res.designs)

\* C11 (as stated): browse returns exactly the records that satisfy every
\* supplied filter (search, level as single string and as list, fromDate,
\* eventFlag), total is the length of the list, and the store is unchanged.
C11_BrowseFiltersAsStated ==
    res.op = "browse"
    => listsExactly({d \in recordsIn(metadata) :
                        /\ searchHolds(d, res.query)
                        /\ levelHoldsAsStated(d, res.query)
                        /\ fromDateHolds(d, res.query)
                        /\ eventFlagHolds(d, res.query)})

\* C11 (amended): browse returns exactly the records that satisfy every
\* effective filter, where a non-empty list of level alternatives replaces
\* the single level string and a record with an empty level matches no
\* level filter; blank parameters and an unparseable fromDate are not
\* filters.  total is the length of the list and a browse step leaves the
\* design store and the analytics collections unchanged.
C11_BrowseFilters ==
    /\ [](res.op = "browse"
          => listsExactly({d \in recordsIn(metadata) :
                              /\ searchHolds(d, res.query)
                              /\ levelHoldsAmended(d, res.query)
                              /\ fromDateHolds(d, res.query)
                              /\ eventFlagHolds(d, res.query)}))
    /\ [][res'.op = "browse"
          => UNCHANGED <<designVars, analyticsVars>>]_vars

\* a browse with search, date and flag filters at once kept one record of
\* three, and it matched by its author
C11_Witness ==
    /\ res.op = "browse"
    /\ supplied(res.query.search) /\ supplied(res.query.fromDate)
    /\ res.query.christmasEvent = "true"
    /\ Len(metadata) = 3 /\ res.total = 1
    /\ ~includes(toLowerCase(res.designs[1].title),
                 toLowerCase(trim(res.query.search)))

\* C12: the list returned by browse is ordered: with sort = "downloads"
\* every record has a greater download_count than the next, or the same
\* count and an upload_date not before the next one's; with any other or no
\* sort value upload_date never increases along the list.  The top list is
\* ordered like a browse with sort = "downloads".
C12_BrowseOrdered ==
    res.op \in {"browse", "top"}
    => \A i \in 1..(Len(res.designs) - 1) :
          LET a == res.designs[i]
              b == res.designs[i + 1]
          IN  IF res.op = "top" \/ res.query.sort = "downloads"
              THEN \/ a.download_count > b.download_count
                   \/ /\ a.download_count = b.download_count
                      /\ a.upload_date >= b.upload_date
              ELSE a.upload_date >= b.upload_date

\* a browse sorted by downloads returned three records: the first two tie
\* on the count and differ in date, the last has a smaller count and is
\* newer than the second
C12_Witness ==
    /\ res.op = "browse" /\ res.query.sort = "downloads"
    /\ Len(res.designs) = 3
    /\ res.designs[1].download_count = res.designs[2].download_count
    /\ res.designs[1].upload_date > res.designs[2].upload_date
    /\ res.designs[2].download_count > res.designs[3].download_count
    /\ res.designs[3].upload_date > res.designs[2].upload_date
    /\ res.designs # metadata

(***************************************************************************)
(* Properties of the analytics collections.                                *)
(***************************************************************************)
isPrefix(a, b) == Len(a) <= Len(b) /\ SubSeq(b, 1, Len(a)) = a

\* C13: no event without an event_name is ever stored in the event log,
\* because both the single-event and the batch request reject such events.
C13_EveryStoredEventNamed ==
    \A i \in 1..Len(events) : events[i].event_name \notin {"", undefined}

\* C14: the event log is append-only: a step that is not a clear keeps
\* every stored event, unchanged and in order, at the front of the log, and
\* new events go to the end; also when a load of the log fails.
C14_EventLogAppendOnly ==
    [][res'.op # "clear" => isPrefix(events, events')]_vars

\* C15: ending a session whose id is not in the session collection answers
\* NotFound and changes no session; otherwise it sets that session's
\* end_time to the current time and its event_count to the number of logged
\* events with that session_id, changes no other session, and returns the
\* session.
C15_EndSessionSnapshot ==
    [][res'.op = "session/end" =>
         \A sid \in SessionIdInputs \ {undefined} :
            EndSession(sid, NoFault)
            => LET k == findIndex(sessions, sid) IN
               IF k = 0
               THEN res'.status = 404 /\ sessions' = sessions
               ELSE /\ res'.status = 200
                    /\ Len(sessions') = Len(sessions)
                    /\ \A i \in 1..Len(sessions) :
                          i # k => sessions'[i] = sessions[i]
                    /\ sessions'[k].id = sid
                    /\ sessions'[k].start_time = sessions[k].start_time
                    /\ sessions'[k].end_time = toISOString(clock)
                    /\ sessions'[k].event_count =
                          Cardinality({i \in 1..Len(events) :
                                          events[i].session_id = sid})
                    /\ res'.session = sessions'[k]]_vars

\* a session was started, two events with its id and one of another
\* session were logged, and it was ended: event_count is 2 and end_time is
\* set, while a second session is still active
C15_Witness ==
    /\ res.op = "session/end" /\ res.status = 200
    /\ res.session.event_count = 2 /\ res.session.end_time # null
    /\ Len(events) = 3
    /\ \E i \in 1..Len(sessions) :
          sessions[i].id # res.session.id /\ sessions[i].end_time = null

\* C16: once a session's end_time is set, a repeated end request for the
\* same id succeeds and leaves end_time unchanged.
C16_EndTimeWrittenOnce ==
    [][res'.op = "session/end" =>
         \A sid \in SessionIdInputs \ {undefined} :
            LET k == findIndex(sessions, sid) IN
            (k # 0 /\ sessions[k].end_time # null /\ EndSession(sid, NoFault))
            => /\ res'.status = 200
               /\ sessions'[k].end_time = sessions[k].end_time]_vars

\* C17: logging events never modifies the session collection, whatever
\* session_id the events carry, including ids of ended sessions and ids
\* that match no session.
C17_EventsLeaveSessionsAlone ==
    [][res'.op \in {"event", "batch"} => sessions' = sessions]_vars

\* after a session ended with event_count 0, an event with its id and an
\* event with an id that matches no session were logged
C17_Witness ==
    /\ res.op \in {"event", "batch"} /\ res.status = 200
    /\ \E i \in 1..Len(sessions), j \in 1..Len(events) :
          /\ sessions[i].end_time # null /\ sessions[i].event_count = 0
          /\ events[j].session_id = sessions[i].id
    /\ \E j \in 1..Len(events) : events[j].session_id = "ghost"

\* C18: after a clear both the event log and the session collection are
\* empty, the design store is unchanged, and a summary taken in the state
\* after the clear reports zero events, zero sessions and zero active
\* sessions.
C18_ClearEmptiesAnalytics ==
    [][res'.op = "clear" =>
         /\ events' = <<>> /\ sessions' = <<>>
         /\ UNCHANGED designVars
         /\ \A tz \in TimeZones :
               \A report \in {summaryOf(events', sessions', clock', tz)} :
                  /\ report.events.total = 0 /\ report.events.this_month = 0
                  /\ report.sessions.total = 0 /\ report.sessions.active = 0
                  /\ \A j \in 1..ChartDays :
                        report.events_per_day[j].count = 0]_vars

\* the analytics were cleared while the design store held a design
C18_Witness ==
    /\ res.op = "clear" /\ res.status = 200
    /\ events = <<>> /\ sessions = <<>>
    /\ Len(metadata) = 1 /\ designExists(Tracked)
    /\ clock = MaxClock

(***************************************************************************)
(* Properties of the summary.                                              *)
(***************************************************************************)
\* midnight of now's UTC day
utcMidnight(now) == (now \div DayLen) * DayLen

\* the logged events whose timestamp is a date in [from, to)
eventsBetween(from, to) ==
    {i \in 1..Len(events) :
        /\ parseDate(events[i].timestamp) # NaN
        /\ parseDate(events[i].timestamp) >= from
        /\ parseDate(events[i].timestamp) < to}

RECURSIVE sumCounts(_, _)
sumCounts(perDay, n) ==
    IF n = 0 THEN 0 ELSE perDay[n].count + sumCounts(perDay, n - 1)

\* the logged events whose timestamp is a date at or after from
eventsSince(from) ==
    {i \in 1..Len(events) :
        /\ parseDate(events[i].timestamp) # NaN
        /\ parseDate(events[i].timestamp) >= from}

\* C19: events_per_day of a summary has exactly 7 entries, the dates are
\* strictly ascending and end at today, each count is the number of events
\* whose timestamp falls in that day, and the counts sum to the number of
\* events with timestamp in [midnight - 6 days, midnight + 1 day).
C19_EventsPerDay ==
    [][res'.op = "summary" =>
         LET perDay == res'.summary.events_per_day
             midnight == utcMidnight(clock)
         IN  /\ Len(perDay) = 7
             /\ \A j \in 1..6 : perDay[j].date < perDay[j + 1].date
             /\ perDay[7].date = utcDate(clock)
             /\ \A j \in 1..7 :
                   perDay[j].count =
                      Cardinality(eventsBetween(perDay[j].date * DayLen,
                                                (perDay[j].date + 1) * DayLen))
             /\ sumCounts(perDay, 7) =
                   Cardinality(eventsBetween(midnight - 6 * DayLen,
                                             midnight + DayLen))]_vars

\* C20: a summary counts as today the events with timestamp at or after
\* now's UTC midnight, as this_week those at or after midnight - 7 days and
\* as this_month those at or after midnight - 30 days, with the same
\* thresholds on start_time for the sessions, so that
\* today <= this_week <= this_month <= total.
C20_SummaryWindows ==
    [][res'.op = "summary" =>
         LET report == res'.summary
             midnight == utcMidnight(clock)
             starts == [i \in 1..Len(sessions) |-> sessions[i].start_time]
         IN  /\ report.events.today =
                   Cardinality(eventsSince(midnight))
             /\ report.events.this_week =
                   Cardinality(eventsSince(midnight - 7 * DayLen))
             /\ report.events.this_month =
                   Cardinality(eventsSince(midnight - 30 * DayLen))
             /\ report.sessions.today = countSince(starts, midnight)
             /\ report.sessions.this_week =
                   countSince(starts, midnight - 7 * DayLen)
             /\ report.events.today <= report.events.this_week
             /\ report.events.this_week <= report.events.this_month
             /\ report.events.this_month <= report.events.total]_vars

\* no logged event carries a timestamp after the reading of the clock
noEventAhead ==
    \A i \in 1..Len(events) :
       parseDate(events[i].timestamp) = NaN
          \/ parseDate(events[i].timestamp) <= clock

\* C21 as stated: when no event lies after today, this_week of a summary is
\* the sum of its seven events_per_day counts.
C21_WeekIsChartSum ==
    [][(res'.op = "summary" /\ noEventAhead) =>
          res'.summary.events.this_week =
             sumCounts(res'.summary.events_per_day, 7)]_vars

\* C21: when no event lies after today, this_week of a summary counts the
\* events at or after the server's midnight - 7 days, which is the sum of
\* the seven events_per_day counts plus the events of the day before the
\* first day of the chart: a window of eight calendar days, today included.
C21_WeekIsChartSumPlusDayBefore ==
    [][(res'.op = "summary" /\ noEventAhead) =>
          \E tz \in TimeZones :
             /\ res'.summary = summaryOf(events, sessions, clock, tz)
             /\ res'.summary.events.this_week =
                   sumCounts(res'.summary.events_per_day, 7)
                   + Cardinality(eventsBetween(
                         localMidnight(clock, tz) - 7 * DayLen,
                         localMidnight(clock, tz) - 6 * DayLen))]_vars

\* a summary whose week holds an event older than the first day of its chart
C21_Witness ==
    /\ res.op = "summary"
    /\ noEventAhead
    /\ Len(events) = 2
    /\ res.summary.events.this_week = 2
    /\ sumCounts(res.summary.events_per_day, 7) = 1

\* the names the logged events carry
loggedNames == {nameKey(events[i].event_name) : i \in 1..Len(events)}

\* C22: top_events of a summary has one entry for every distinct
\* event_name of the log, each entry's count is the number of events with
\* that name, the counts sum to the total number of events, and the
\* entries are in non-increasing order of count.
C22_TopEventsIsFrequencyTable ==
    res.op = "summary" =>
       LET top == res.top_events IN
       /\ {top[i].name : i \in 1..Len(top)} = loggedNames
       /\ Len(top) = Cardinality(loggedNames)
       /\ \A i \in 1..Len(top) :
             top[i].count =
                Cardinality({j \in 1..Len(events) :
                                nameKey(events[j].event_name) = top[i].name})
       /\ sumCounts(top, Len(top)) = Len(events)
       /\ \A i \in 1..(Len(top) - 1) : top[i].count >= top[i + 1].count

\* the logged events with the name the breakdown was asked for
matchingNow == matching(events, res.event_name)

\* the answer of a breakdown for one property
singleBreakdown ==
    /\ res.op = "event-breakdown" /\ res.status = 200
    /\ "property" \in DOMAIN res

\* the answer of a breakdown without a property, for a name that matched
fullBreakdown ==
    /\ res.op = "event-breakdown" /\ res.status = 200
    /\ "breakdowns" \in DOMAIN res

\* C23: the counts of a single-property breakdown sum to total_count, the
\* number of events with the event_name; every matching event contributes
\* to exactly one entry, the list is not cut and the entries are in
\* non-increasing order of count; without a match total_count is 0 and the
\* breakdown is empty.
C23_BreakdownSumsToTotal ==
    /\ singleBreakdown =>
          LET table == res.breakdown IN
          /\ res.total_count = Len(matchingNow)
          /\ sumCounts(table, Len(table)) = res.total_count
          /\ \A i \in 1..Len(matchingNow) :
                Cardinality({j \in 1..Len(table) :
                    table[j].value = valueKey(matchingNow[i], res.property)})
                   = 1
          /\ \A i \in 1..Len(table), j \in 1..Len(table) :
                table[i].value = table[j].value => i = j
          /\ \A i \in 1..(Len(table) - 1) :
                table[i].count >= table[i + 1].count
    /\ (res.op = "event-breakdown" /\ res.status = 200
           /\ Len(matchingNow) = 0) =>
          (res.total_count = 0 /\ res.breakdown = <<>>)

\* the entry an event is counted under when every carried value keeps its
\* own entry and only a missing value goes to "(empty)"
valueKeyAsCarried(event, propertyName) ==
    IF propertyName \in DOMAIN event.properties
    THEN propertyOf(event, propertyName).text
    ELSE EmptySentinel

\* C24: the "(empty)" entry of a single-property breakdown counts exactly
\* the matching events that have no value for the property, and an event
\* that carries a value (0, false and "" included) is counted under that
\* value.
C24_EmptyCountsMissingOnly ==
    singleBreakdown =>
       \A j \in 1..Len(res.breakdown) :
          res.breakdown[j].count =
             Cardinality({i \in 1..Len(matchingNow) :
                 valueKeyAsCarried(matchingNow[i], res.property)
                    = res.breakdown[j].value})

\* C25: a breakdown without a property lists the union of the property
\* keys of the matching events and gives, for each of those names, the 20
\* first entries of the table the single-property call returns (the whole
\* table when it has at most 20 values).
C25_FullBreakdownIsTopTwenty ==
    fullBreakdown =>
       /\ res.properties =
             UNION {DOMAIN matchingNow[i].properties :
                       i \in 1..Len(matchingNow)}
       /\ \A name \in res.properties :
             /\ name \in DOMAIN res.breakdowns
             /\ \E table \in valueTables(matchingNow, name) :
                   res.breakdowns[name] =
                      IF Len(table) <= 20 THEN table
                      ELSE SubSeq(table, 1, 20)

\* C26: a mutating request never reports a mutation that the collection
\* file does not hold after it: a download that answers with a count
\* leaves that count stored, an accepted event is in the log, a started
\* session is in the session list and an ended session is stored as ended.
C26_ReportedMutationIsPersisted ==
    [][/\ (res'.op = "download" /\ res'.status = 200
              /\ res'.download_count # NoCount) =>
             metadata'[findIndex(metadata', Tracked)].download_count
                = res'.download_count
       /\ (res'.op = "event" /\ res'.status = 200 /\ clock' = clock) =>
             Len(events') = Len(events) + 1
       /\ (res'.op = "session/start" /\ res'.status = 200 /\ clock' = clock) =>
             Len(sessions') = Len(sessions) + 1
       /\ (res'.op = "session/end" /\ res'.status = 200) =>
             \E i \in 1..Len(sessions') : sessions'[i] = res'.session]_vars

\* a step that runs the start to its end
startupStep == boot.phase = "starting" /\ boot'.phase # "starting"

\* the start leaves an existing file alone and creates a missing one empty
startupKeepsFiles ==
    /\ boot.present.metadata => (boot'.present.metadata /\ metadata' = metadata)
    /\ boot.present.events => (boot'.present.events /\ events' = events)
    /\ boot.present.sessions => (boot'.present.sessions /\ sessions' = sessions)
    /\ (~boot.present.metadata /\ boot'.present.metadata) => metadata' = <<>>
    /\ (~boot.present.events /\ boot'.present.events) => events' = <<>>
    /\ (~boot.present.sessions /\ boot'.present.sessions) => sessions' = <<>>

\* C27 as stated: the start creates each of the three collections empty
\* only if it does not exist, never overwrites an existing one, and a
\* failure to initialize any of the three aborts the process: a process
\* that serves has all three files.
C27_StartupAllOrAbort ==
    [][startupStep =>
          /\ startupKeepsFiles
          /\ boot'.phase = "serving" =>
                /\ boot'.present.metadata
                /\ boot'.present.events
                /\ boot'.present.sessions]_vars

\* C27: the start creates each of the three collections empty only if it
\* does not exist and never overwrites an existing one; a failure to
\* initialize the design collection aborts the process, so a process that
\* serves has metadata.json, while a failure to initialize the event or the
\* session collection is only logged and the process serves without it.
C27_StartupDesignsOrAbort ==
    [][startupStep =>
          /\ startupKeepsFiles
          /\ boot'.phase \in {"serving", "exited"}
          /\ boot'.phase = "serving" => boot'.present.metadata
          /\ boot'.phase = "exited" => boot'.present = boot.present]_vars

\* a process that serves although the start could not create events.json,
\* with the designs it found at the start still stored
C27_Witness ==
    /\ boot.phase = "serving"
    /\ ~boot.present.events
    /\ ~boot.present.sessions
    /\ metadata # <<>>
    /\ res.op = "summary"

\* C28: in every reachable state, the ones between an upload's payload
\* write, its awaited thumbnail save and its metadata write included,
\* every record of the design collection has its payload file stored.
C28_EveryRecordHasItsPayload ==
    \A i \in 1..Len(metadata) : designExists(metadata[i].id)

\* the records a browse with query q and the flag filter set to flag lists
flagPart(q, flag) ==
    recordsIn(filterDesigns(metadata, [q EXCEPT !.christmasEvent = flag]))

\* C29: the flag filter partitions the collection: each record listed
\* without the flag filter is in exactly one of the answers for flag true
\* and flag false, a record without the flag is in the false part, and the
\* two totals add up to the total without the filter; an upload that does
\* not pass the flag as boolean true stores false, also over a record whose
\* flag was true.
C29_FlagPartitions ==
    [][/\ (res'.op = "browse" /\ given(res'.query.christmasEvent)) =>
             LET q == res'.query
                 flag == q.christmasEvent
                 other == IF flag = "true" THEN "false" ELSE "true"
                 whole == flagPart(q, undefined)
             IN  /\ recordsIn(res'.designs) = flagPart(q, flag)
                 /\ flagPart(q, flag) \cup flagPart(q, other) = whole
                 /\ flagPart(q, flag) \cap flagPart(q, other) = {}
                 /\ res'.total + Cardinality(flagPart(q, other))
                       = Cardinality(whole)
                 /\ \A d \in whole :
                       "christmas_event" \notin DOMAIN d
                          => d \in flagPart(q, "false")
       /\ uploadAnswered =>
             \A body \in UploadBodies, saved \in BOOLEAN :
                uploadStores(res'.id, body, saved) =>
                   recordOf(metadata', res'.id).christmas_event
                      = (body.christmasEvent = "true")]_vars

\* the false part of a store that holds a record without the flag and a
\* record whose flag is true
C29_Witness ==
    /\ res.op = "browse" /\ res.query.christmasEvent = "false"
    /\ \E i \in 1..Len(res.designs) :
          "christmas_event" \notin DOMAIN res.designs[i]
    /\ \E i \in 1..Len(metadata) :
          /\ "christmas_event" \in DOMAIN metadata[i]
          /\ metadata[i].christmas_event
          /\ metadata[i] \notin recordsIn(res.designs)

\* the collection after the counter of the record of id moved by delta,
\* clamped at 0
counted(id, delta) ==
    LET i == findIndex(metadata, id) IN
    [metadata EXCEPT ![i].download_count =
        IF @ + delta < 0 THEN 0 ELSE @ + delta]

\* C30: likes and downloads are one counter: for a design that has a
\* record, a download stores the collection that a like with +1 stores, a
\* like or unlike stores the count moved by +1 or -1 and clamped at 0, and
\* neither writes any other field.
C30_LikesAndDownloadsOneCounter ==
    [][res'.op \in {"download", "like"} =>
          \A id \in Ids :
             hasRecord(metadata, id) =>
                /\ downloads(id) => metadata' = counted(id, 1)
                /\ \A delta \in {1, 0 - 1} :
                      LikeDesign(id, delta) => metadata' = counted(id, delta)
                /\ (downloads(id) \/ \E delta \in Increments :
                                        LikeDesign(id, delta)) =>
                      /\ Len(metadata') = Len(metadata)
                      /\ \A i \in 1..Len(metadata) :
                            DOMAIN metadata'[i] = DOMAIN metadata[i]]_vars

====
